---- MODULE Spec2Model ----
(***************************************************************************)
(* Model of src/app.py: the start-up probe of the two OCR engines          *)
(* (PaddleOCR = EngineA, EasyOCR = EngineB) and ocr_receipt, the           *)
(* operation the spec calls submitReceipt.                                 *)
(*                                                                         *)
(* Strings are sequences of one-character strings.  Python values that an  *)
(* engine can return are records [k, s, e]: k is the Python type, s the    *)
(* characters of a str (or the decimal rendering of a number), e the       *)
(* elements of a list or tuple.                                            *)
(***************************************************************************)
EXTENDS Integers, Sequences, FiniteSets, TLC

\* ------------------------------------------------------------------ bounds
MaxItems == 2      \* items per page (EngineA) / per result (EngineB)
MaxReq == 2        \* request slots
MaxNames == 2      \* distinct temporary-file names the OS can hand out

Reqs == 1..MaxReq
Names == 1..MaxNames

\* ------------------------------------------------------- Python value model
PyNone == [k |-> "None", s |-> <<>>, e |-> <<>>]
PyInt(d) == [k |-> "int", s |-> d, e |-> <<>>]
PyFloat(d) == [k |-> "float", s |-> d, e |-> <<>>]
PyString(s) == [k |-> "str", s |-> s, e |-> <<>>]
PyList(e) == [k |-> "list", s |-> <<>>, e |-> e]
PyTuple(e) == [k |-> "tuple", s |-> <<>>, e |-> e]

\* the characters str.strip() removes
Whitespace == {" ", "\n", "\t"}

RECURSIVE Flatten(_)
\* concatenation of a sequence of sequences
Flatten(ss) == IF ss = <<>> THEN <<>> ELSE Head(ss) \o Flatten(Tail(ss))

\* repr() of one character inside a quoted string
ReprChar(c) == IF c = "\n" THEN <<"\\", "n">>
               ELSE IF c = "\t" THEN <<"\\", "t">>
               ELSE <<c>>

RECURSIVE CommaJoin(_)
\* ", ".join(parts)
CommaJoin(parts) ==
    IF parts = <<>> THEN <<>>
    ELSE IF Len(parts) = 1 THEN Head(parts)
    ELSE Head(parts) \o <<",", " ">> \o CommaJoin(Tail(parts))

RECURSIVE PyRepr(_)
\* repr(v)
PyRepr(v) ==
    CASE v.k = "None" -> <<"N", "o", "n", "e">>
      [] v.k \in {"int", "float"} -> v.s
      [] v.k = "str" ->
            <<"'">> \o Flatten([i \in 1..Len(v.s) |-> ReprChar(v.s[i])]) \o <<"'">>
      [] v.k = "list" ->
            <<"[">> \o CommaJoin([i \in 1..Len(v.e) |-> PyRepr(v.e[i])]) \o <<"]">>
      [] v.k = "tuple" ->
            IF Len(v.e) = 1
            THEN <<"(">> \o PyRepr(v.e[1]) \o <<",", ")">>
            ELSE <<"(">> \o CommaJoin([i \in 1..Len(v.e) |-> PyRepr(v.e[i])]) \o <<")">>

\* str(v): a str renders as itself, everything else as its repr
PyStr(v) == IF v.k = "str" THEN v.s ELSE PyRepr(v)

\* iter(v) succeeds
Iterable(v) == v.k \in {"list", "tuple", "str"}

\* the elements iteration or subscripting of v yields
Elems(v) == IF v.k = "str" THEN [i \in 1..Len(v.s) |-> PyString(<<v.s[i]>>)] ELSE v.e

\* v[i] (i counted from 0 as in Python) does not raise
HasIndex(v, i) == Iterable(v) /\ i < Len(Elems(v))

\* v[i]
Index(v, i) == Elems(v)[i + 1]

\* "\n".join(lines) does not raise TypeError: every element is a str
JoinOk(lines) == \A i \in 1..Len(lines) : lines[i].k = "str"

RECURSIVE Join(_)
\* "\n".join(lines) for a list of str values
Join(lines) ==
    IF lines = <<>> THEN <<>>
    ELSE IF Len(lines) = 1 THEN Head(lines).s
    ELSE Head(lines).s \o <<"\n">> \o Join(Tail(lines))

RECURSIVE LStrip(_)
LStrip(s) == IF s # <<>> /\ Head(s) \in Whitespace THEN LStrip(Tail(s)) ELSE s

RECURSIVE RStrip(_)
RStrip(s) == IF s # <<>> /\ s[Len(s)] \in Whitespace
             THEN RStrip(SubSeq(s, 1, Len(s) - 1)) ELSE s

\* s.strip()
Strip(s) == RStrip(LStrip(s))

\* ------------------------------------------------------ result extractors
\* TokenA without the str(item) fallback: a malformed item yields an empty line
TokenANoFallback(item) ==
    IF HasIndex(item, 1) /\ HasIndex(Index(item, 1), 0)
    THEN Index(Index(item, 1), 0)
    ELSE PyString(<<>>)

\* lines 96-99: txt = item[1][0], or str(item) when that raises
TokenA(item) ==
    IF HasIndex(item, 1) /\ HasIndex(Index(item, 1), 0)
    THEN Index(Index(item, 1), 0)
    ELSE PyString(PyStr(item))

\* lines 93-102: the lines one page contributes
PageLinesA(page) ==
    IF page.k = "list"
    THEN [i \in 1..Len(page.e) |-> TokenA(page.e[i])]
    ELSE <<PyString(PyStr(page))>>

\* line 92 raises and the handler of lines 103-106 runs
UnexpectedA(r) == ~Iterable(r)

\* lines 88-106: the list `lines` after the PaddleOCR parse
LinesA(r) ==
    IF UnexpectedA(r)
    THEN <<PyString(PyStr(r))>>
    ELSE Flatten([i \in 1..Len(Elems(r)) |-> PageLinesA(Elems(r)[i])])

\* lines 128-131: txt = item[1], or str(item) when that raises
TokenB(item) ==
    IF HasIndex(item, 1) THEN Index(item, 1) ELSE PyString(PyStr(item))

\* line 127 raises: the EasyOCR result cannot be iterated
UnexpectedB(r) == ~Iterable(r)

\* lines 126-132: the list `lines` after the EasyOCR loop
LinesB(r) == [i \in 1..Len(Elems(r)) |-> TokenB(Elems(r)[i])]

\* ------------------------------------------------------------ input sets
\* all sequences over S of length at most n
SeqsUpTo(S, n) == UNION {[1..m -> S] : m \in 0..n}

\* a detection box: a list of [x, y] points
Box == PyList(<<PyList(<<PyInt(<<"0">>), PyInt(<<"0">>)>>),
               PyList(<<PyInt(<<"9">>), PyInt(<<"0">>)>>)>>)
Conf == PyFloat(<<"0", ".", "9">>)

\* recognised texts: plain, and whitespace only (empty once stripped)
Texts == {<<"a">>, <<" ">>}

\* EngineA items [box, (text, conf)]: well-formed, text field missing,
\* text field present but not a str
ItemsA == {PyList(<<Box, PyTuple(<<PyString(t), Conf>>)>>) : t \in Texts}
          \cup {PyList(<<Box>>)}
          \cup {PyList(<<Box, PyTuple(<<PyInt(<<"5">>), Conf>>)>>)}

\* EngineA pages: lists of items, the None page PaddleOCR returns for an
\* image without text, and an item tuple standing where a page is expected
PagesA == {PyList(p) : p \in SeqsUpTo(ItemsA, MaxItems)}
          \cup {PyNone, PyTuple(<<Box, PyTuple(<<PyString(<<"a">>), Conf>>)>>)}

ShortPagesA == {p \in PagesA : p.k # "list" \/ Len(p.e) <= 1}

\* second pages of a two-page result
LastPagesA == {PyNone, PyList(<<PyList(<<Box, PyTuple(<<PyString(<<"a">>), Conf>>)>>)>>)}

\* what paddle_ocr.ocr can return: None, no page, one page, two short pages
ResultsA == {PyNone, PyList(<<>>)}
            \cup {PyList(<<p>>) : p \in PagesA}
            \cup {PyList(<<p, q>>) : p \in ShortPagesA, q \in LastPagesA}

\* EngineB items (box, text, conf): well-formed, text field missing,
\* text field present but not a str
ItemsB == {PyTuple(<<Box, PyString(t), Conf>>) : t \in Texts}
          \cup {PyTuple(<<Box>>)}
          \cup {PyTuple(<<Box, PyInt(<<"5">>), Conf>>)}

\* what easy_reader.readtext can return: None or a list of items
ResultsB == {PyNone} \cup {PyList(p) : p \in SeqsUpTo(ItemsB, MaxItems)}

\* the images a caller can pass: None, a numpy array, or a PIL image whose
\* array form has the given shape; ndim 1 stands for an array without a
\* third axis to inspect, ch is shape[2] of a 3-D array
NoImage == [kind |-> "None", ndim |-> 0, ch |-> 0]
Images == {NoImage}
          \cup {[kind |-> "ndarray", ndim |-> 1, ch |-> 0]}
          \cup {[kind |-> "ndarray", ndim |-> 2, ch |-> 0]}
          \cup {[kind |-> "ndarray", ndim |-> 3, ch |-> c] : c \in {1, 2, 3, 4}}
          \cup {[kind |-> "pil", ndim |-> 3, ch |-> 3]}

\* the None check of line 55 left out
IsNoneNever(img) == FALSE

\* line 55: image is None
IsNone(img) == img.kind = "None"

\* number of channels of an array image
ChannelCount(img) == IF img.ndim = 2 THEN 1 ELSE img.ch

\* cv2.cvtColor(image, code): the channel count of the output, 0 when the
\* call raises (the input's channel count is not one the code accepts)
cvtColor(img, code) ==
    CASE code = "COLOR_GRAY2BGR" -> IF ChannelCount(img) = 1 THEN 3 ELSE 0
      [] code = "COLOR_RGBA2BGR" -> IF ChannelCount(img) \in {3, 4} THEN 3 ELSE 0
      [] code = "COLOR_RGB2BGR" -> IF ChannelCount(img) \in {3, 4} THEN 3 ELSE 0

\* lines 64-72: the conversion the normalisation step selects
ConversionCode(img) ==
    IF img.ndim = 2 THEN "COLOR_GRAY2BGR"
    ELSE IF img.ch = 4 THEN "COLOR_RGBA2BGR"
    ELSE "COLOR_RGB2BGR"

\* ------------------------------------------------------------------ state
VARIABLES
    boot,                 \* position of the module-level start-up code
    probe_raised,         \* the start-up steps that raised
    PADDLE_AVAILABLE, EASY_AVAILABLE,
    paddle_ocr, easy_reader,            \* "None" or the engine handle
    paddle_import_error, easy_import_error,   \* "None" or a traceback text
    fs,                   \* file system: name -> owning request, 0 = absent
    active,               \* the request slots in use
    pc,                   \* per request: position in ocr_receipt
    image, img_bgr,       \* argument; channels of the converted image (0 = unset)
    tmp_path,             \* 0 while 'tmp_path' is not in locals()
    debug_lines, res, recognized,
    ret,                  \* the (text, trace) pair of the return statement
    escaped,              \* an exception propagates to the caller
    calls,                \* engine calls started in this request, in order
    raised,               \* tracebacks of the exceptions raised in this request
    gotA, gotB            \* outcome of each engine attempt in this request

registry == <<PADDLE_AVAILABLE, EASY_AVAILABLE, paddle_ocr, easy_reader,
              paddle_import_error, easy_import_error>>
locals == <<image, img_bgr, tmp_path, debug_lines, res, recognized>>
ghosts == <<calls, raised, gotA, gotB>>
vars == <<boot, probe_raised, registry, fs, active, pc, locals, ret, escaped,
          ghosts>>

NoRet == [text |-> <<>>, trace |-> <<>>]
\* outcome of an engine attempt: "none" (not called), "raised" (the call
\* raised), "unparsed" / "unjoined" (the call returned, reading or joining
\* the result raised), "text" / "empty" (a non-empty / empty text was extracted)
NoAttempt == "none"
Outcome(text) == IF text = <<>> THEN "empty" ELSE "text"

InitCommon ==
    /\ boot = "import_paddle"
    /\ probe_raised = {}
    /\ PADDLE_AVAILABLE = FALSE /\ EASY_AVAILABLE = FALSE
    /\ paddle_ocr = "None" /\ easy_reader = "None"
    /\ paddle_import_error = "None" /\ easy_import_error = "None"
    /\ fs = [n \in Names |-> 0]
    /\ pc = [r \in Reqs |-> "idle"]
    /\ image = [r \in Reqs |-> NoImage]
    /\ img_bgr = [r \in Reqs |-> 0]
    /\ tmp_path = [r \in Reqs |-> 0]
    /\ debug_lines = [r \in Reqs |-> <<>>]
    /\ res = [r \in Reqs |-> PyNone]
    /\ recognized = [r \in Reqs |-> <<>>]
    /\ ret = [r \in Reqs |-> NoRet]
    /\ escaped = [r \in Reqs |-> FALSE]
    /\ calls = [r \in Reqs |-> <<>>]
    /\ raised = [r \in Reqs |-> {}]
    /\ gotA = [r \in Reqs |-> NoAttempt]
    /\ gotB = [r \in Reqs |-> NoAttempt]

\* requests are served one at a time
Init == InitCommon /\ active = {1}

\* ------------------------------------------------------- start-up probe
\* the probe's steps whose failure is caught: each one sits in a try block
\* with `except Exception` (lines 19, 26, 35, 44)
ProbeCaughtImportsOnly(step) == step \in {"import_paddle", "import_easy"}

ProbeCaught(step) == step \in {"import_paddle", "import_easy",
                               "construct_paddle", "construct_easy"}

\* where the module's execution goes on after a step that raised
AfterFailure(step, next) == IF ProbeCaught(step) THEN next ELSE "crashed"

\* lines 16-21
ImportPaddle ==
    /\ boot = "import_paddle"
    /\ \E ok \in BOOLEAN :
         IF ok THEN /\ PADDLE_AVAILABLE' = TRUE
                    /\ boot' = "import_easy"
                    /\ UNCHANGED <<paddle_import_error, probe_raised>>
               ELSE /\ probe_raised' = probe_raised \cup {"import_paddle"}
                    /\ boot' = AfterFailure("import_paddle", "import_easy")
                    /\ IF ProbeCaught("import_paddle")
                       THEN /\ PADDLE_AVAILABLE' = FALSE
                            /\ paddle_import_error' = "Traceback: import paddleocr"
                       ELSE UNCHANGED <<PADDLE_AVAILABLE, paddle_import_error>>
    /\ UNCHANGED <<EASY_AVAILABLE, paddle_ocr, easy_reader, easy_import_error,
                   fs, active, pc, locals, ret, escaped, ghosts>>

\* lines 23-28
ImportEasy ==
    /\ boot = "import_easy"
    /\ \E ok \in BOOLEAN :
         IF ok THEN /\ EASY_AVAILABLE' = TRUE
                    /\ boot' = "construct_paddle"
                    /\ UNCHANGED <<easy_import_error, probe_raised>>
               ELSE /\ probe_raised' = probe_raised \cup {"import_easy"}
                    /\ boot' = AfterFailure("import_easy", "construct_paddle")
                    /\ IF ProbeCaught("import_easy")
                       THEN /\ EASY_AVAILABLE' = FALSE
                            /\ easy_import_error' = "Traceback: import easyocr"
                       ELSE UNCHANGED <<EASY_AVAILABLE, easy_import_error>>
    /\ UNCHANGED <<PADDLE_AVAILABLE, paddle_ocr, easy_reader, paddle_import_error,
                   fs, active, pc, locals, ret, escaped, ghosts>>

\* lines 31-38
ConstructPaddle ==
    /\ boot = "construct_paddle"
    /\ IF PADDLE_AVAILABLE
       THEN \E ok \in BOOLEAN :
              IF ok THEN /\ paddle_ocr' = "PaddleOCR"
                         /\ boot' = "construct_easy"
                         /\ UNCHANGED <<PADDLE_AVAILABLE, paddle_import_error,
                                        probe_raised>>
                    ELSE /\ probe_raised' = probe_raised \cup {"construct_paddle"}
                         /\ boot' = AfterFailure("construct_paddle", "construct_easy")
                         /\ IF ProbeCaught("construct_paddle")
                            THEN /\ paddle_ocr' = "None"
                                 /\ paddle_import_error' = "Traceback: PaddleOCR()"
                                 /\ PADDLE_AVAILABLE' = FALSE
                            ELSE UNCHANGED <<paddle_ocr, PADDLE_AVAILABLE,
                                             paddle_import_error>>
       ELSE /\ boot' = "construct_easy"
            /\ UNCHANGED <<paddle_ocr, PADDLE_AVAILABLE, paddle_import_error,
                           probe_raised>>
    /\ UNCHANGED <<EASY_AVAILABLE, easy_reader, easy_import_error,
                   fs, active, pc, locals, ret, escaped, ghosts>>

\* ConstructEasy whose handler leaves the flag on (line 47 left out)
ConstructEasyKeepsFlag ==
    /\ boot = "construct_easy"
    /\ IF EASY_AVAILABLE
       THEN \E ok \in BOOLEAN :
              IF ok THEN /\ easy_reader' = "Reader"
                         /\ UNCHANGED <<easy_import_error, probe_raised>>
                    ELSE /\ probe_raised' = probe_raised \cup {"construct_easy"}
                         /\ easy_reader' = "None"
                         /\ easy_import_error' = "Traceback: easyocr.Reader()"
       ELSE UNCHANGED <<easy_reader, easy_import_error, probe_raised>>
    /\ boot' = "serving"
    /\ UNCHANGED <<EASY_AVAILABLE, PADDLE_AVAILABLE, paddle_ocr, paddle_import_error,
                   fs, active, pc, locals, ret, escaped, ghosts>>

\* lines 40-47
ConstructEasy ==
    /\ boot = "construct_easy"
    /\ IF EASY_AVAILABLE
       THEN \E ok \in BOOLEAN :
              IF ok THEN /\ easy_reader' = "Reader"
                         /\ boot' = "serving"
                         /\ UNCHANGED <<EASY_AVAILABLE, easy_import_error,
                                        probe_raised>>
                    ELSE /\ probe_raised' = probe_raised \cup {"construct_easy"}
                         /\ boot' = AfterFailure("construct_easy", "serving")
                         /\ IF ProbeCaught("construct_easy")
                            THEN /\ easy_reader' = "None"
                                 /\ easy_import_error' = "Traceback: easyocr.Reader()"
                                 /\ EASY_AVAILABLE' = FALSE
                            ELSE UNCHANGED <<easy_reader, EASY_AVAILABLE,
                                             easy_import_error>>
       ELSE /\ boot' = "serving"
            /\ UNCHANGED <<easy_reader, EASY_AVAILABLE, easy_import_error,
                           probe_raised>>
    /\ UNCHANGED <<PADDLE_AVAILABLE, paddle_ocr, paddle_import_error,
                   fs, active, pc, locals, ret, escaped, ghosts>>

\* ------------------------------------------------------- trace entries
\* line 164 (the traceback follows as a second entry)
InternalErrorLine == "Internal error:"
\* lines 155-158
Hints == <<"Recommendations:",
           "1) Install paddleocr and paddlepaddle or easyocr.",
           "2) Check that the command runs in the environment with the packages.",
           "3) On Windows try a suitable paddlepaddle wheel.">>
\* lines 150, 153
NoInfo == "no additional information"

\* the empty-text entry left out
EmptyNoteNever(text, entry) == <<>>

\* lines 110-111 and 135-136: the entry added when the joined text is empty
EmptyNote(text, entry) == IF text = <<>> THEN <<entry>> ELSE <<>>

\* Python's `x or default` for a value that is None or a non-empty text
OrElse(x, default) == IF x = "None" THEN default ELSE x

\* the stored failure detail left out of the entries
UnavailableNoteNoDetail(available, header, err) ==
    IF ~available THEN <<header>> ELSE <<>>

\* lines 148-150 and 151-153: the entries about an engine whose flag is off
UnavailableNote(available, header, err) ==
    IF ~available THEN <<header, OrElse(err, NoInfo)>> ELSE <<>>

\* ---------------------------------------------------- exception routing
\* cv2.imwrite called outside the top-level try statement
HandlerImwriteOutside(p) ==
    CASE p \in {"normalize", "mktemp"} -> "top"
      [] p \in {"paddle_call", "paddle_remove"} -> "paddle"
      [] p \in {"easy_call", "easy_remove"} -> "easy"
      [] p \in {"easy_cleanup", "finally_remove"} -> "pass"
      [] OTHER -> "none"

\* the try statement whose handler catches an exception raised at position p:
\* "top" lines 54/162, "paddle" lines 84/113, "easy" lines 121/138,
\* "pass" lines 141/143 and 167/170
Handler(p) ==
    CASE p \in {"normalize", "mktemp", "imwrite"} -> "top"
      [] p \in {"paddle_call", "paddle_remove"} -> "paddle"
      [] p \in {"easy_call", "easy_remove"} -> "easy"
      [] p \in {"easy_cleanup", "finally_remove"} -> "pass"
      [] OTHER -> "none"

\* an exception with traceback text tb is raised at the request's position;
\* dl is debug_lines as the code before the raise left it
Raise(r, tb, dl) ==
    /\ raised' = [raised EXCEPT ![r] = @ \cup {tb}]
    /\ CASE Handler(pc[r]) = "top" ->
              \* lines 162-164
              /\ ret' = [ret EXCEPT ![r] =
                           [text |-> <<>>, trace |-> <<InternalErrorLine, tb>>]]
              /\ pc' = [pc EXCEPT ![r] = "finally"]
              /\ debug_lines' = [debug_lines EXCEPT ![r] = dl]
              /\ UNCHANGED escaped
         [] Handler(pc[r]) = "paddle" ->
              \* lines 113-115
              /\ debug_lines' = [debug_lines EXCEPT ![r] =
                                   dl \o <<"Error running PaddleOCR:", tb>>]
              /\ pc' = [pc EXCEPT ![r] = "easy_check"]
              /\ UNCHANGED <<ret, escaped>>
         [] Handler(pc[r]) = "easy" ->
              \* lines 138-140
              /\ debug_lines' = [debug_lines EXCEPT ![r] =
                                   dl \o <<"Error running EasyOCR:", tb>>]
              /\ pc' = [pc EXCEPT ![r] = "easy_cleanup"]
              /\ UNCHANGED <<ret, escaped>>
         [] Handler(pc[r]) = "pass" ->
              \* lines 143-144 and 170-171
              /\ pc' = [pc EXCEPT ![r] =
                          IF pc[r] = "easy_cleanup" THEN "noresult" ELSE "done"]
              /\ debug_lines' = [debug_lines EXCEPT ![r] = dl]
              /\ UNCHANGED <<ret, escaped>>
         [] OTHER ->
              \* no enclosing handler: the finally block runs, then the
              \* exception reaches the caller
              /\ escaped' = [escaped EXCEPT ![r] = TRUE]
              /\ pc' = [pc EXCEPT ![r] = "finally"]
              /\ debug_lines' = [debug_lines EXCEPT ![r] = dl]
              /\ UNCHANGED ret

\* a return statement inside the try block: the pair is fixed, then the
\* finally block runs
Return(r, text, trace) ==
    /\ ret' = [ret EXCEPT ![r] = [text |-> text, trace |-> trace]]
    /\ pc' = [pc EXCEPT ![r] = "finally"]

\* ------------------------------------------------------------ ocr_receipt
\* line 49: the caller invokes ocr_receipt(img); line 53
Submit(r, img) ==
    /\ boot = "serving"
    /\ r \in active
    /\ pc[r] \in {"idle", "done"}
    /\ pc' = [pc EXCEPT ![r] = "normalize"]
    /\ image' = [image EXCEPT ![r] = img]
    /\ img_bgr' = [img_bgr EXCEPT ![r] = 0]
    /\ tmp_path' = [tmp_path EXCEPT ![r] = 0]
    /\ debug_lines' = [debug_lines EXCEPT ![r] = <<>>]
    /\ res' = [res EXCEPT ![r] = PyNone]
    /\ recognized' = [recognized EXCEPT ![r] = <<>>]
    /\ ret' = [ret EXCEPT ![r] = NoRet]
    /\ escaped' = [escaped EXCEPT ![r] = FALSE]
    /\ calls' = [calls EXCEPT ![r] = <<>>]
    /\ raised' = [raised EXCEPT ![r] = {}]
    /\ gotA' = [gotA EXCEPT ![r] = NoAttempt]
    /\ gotB' = [gotB EXCEPT ![r] = NoAttempt]
    /\ UNCHANGED <<boot, probe_raised, registry, fs, active>>

\* lines 55-72
Normalize(r) ==
    /\ pc[r] = "normalize"
    /\ IF IsNone(image[r])
       THEN \* lines 55-56
            /\ Return(r, <<>>, <<"Error: image not loaded.">>)
            /\ UNCHANGED <<image, img_bgr, debug_lines, escaped, raised>>
       ELSE \/ \* lines 59-61: image = np.array(image) raises
               /\ image[r].kind = "pil"
               /\ Raise(r, "Traceback: np.array", debug_lines[r])
               /\ UNCHANGED <<image, img_bgr>>
            \/ \* line 67: image.shape[2] on an array without a third axis
               /\ image[r].ndim = 1
               /\ Raise(r, "Traceback: image.shape[2]", debug_lines[r])
               /\ UNCHANGED <<image, img_bgr>>
            \/ \* lines 59-72: image is rebound to its array form and converted
               /\ image[r].ndim # 1
               /\ LET out == cvtColor(image[r], ConversionCode(image[r])) IN
                  IF out = 0
                  THEN /\ Raise(r, "Traceback: cv2.cvtColor", debug_lines[r])
                       /\ UNCHANGED <<image, img_bgr>>
                  ELSE /\ image' = [image EXCEPT ![r].kind = "ndarray"]
                       /\ img_bgr' = [img_bgr EXCEPT ![r] = out]
                       /\ pc' = [pc EXCEPT ![r] = "mktemp"]
                       /\ UNCHANGED <<debug_lines, ret, escaped, raised>>
    /\ UNCHANGED <<boot, probe_raised, registry, fs, active, tmp_path, res, recognized,
                   calls, gotA, gotB>>

\* a free name that no request holds in tmp_path; such names are
\* interchangeable, so the lowest of them stands for any of them
Unused(n) == fs[n] = 0 /\ \A q \in Reqs : tmp_path[q] # n

\* lines 75-76: NamedTemporaryFile(delete=False) creates a file under a
\* name no existing file has, or raises without creating one
MkTemp(r) ==
    /\ pc[r] = "mktemp"
    /\ \/ /\ Raise(r, "Traceback: NamedTemporaryFile", debug_lines[r])
          /\ UNCHANGED <<fs, tmp_path>>
       \/ \E n \in Names :
            /\ fs[n] = 0
            /\ Unused(n) => \A m \in 1..(n - 1) : ~Unused(m)
            /\ fs' = [fs EXCEPT ![n] = r]
            /\ tmp_path' = [tmp_path EXCEPT ![r] = n]
            /\ pc' = [pc EXCEPT ![r] = "imwrite"]
            /\ UNCHANGED <<debug_lines, ret, escaped, raised>>
    /\ UNCHANGED <<boot, probe_raised, registry, active, image, img_bgr, res, recognized,
                   calls, gotA, gotB>>

\* lines 77-79: cv2.imwrite returns or raises; the with block closes the file
ImWrite(r) ==
    /\ pc[r] = "imwrite"
    /\ \/ /\ Raise(r, "Traceback: cv2.imwrite", debug_lines[r])
          /\ UNCHANGED fs
       \/ \* the write goes to the path: a file removed in the meantime is
          \* created again, a file found there is overwritten
          /\ fs' = [fs EXCEPT ![tmp_path[r]] = IF @ = 0 THEN r ELSE @]
          /\ debug_lines' = [debug_lines EXCEPT ![r] = @ \o <<"Temp file:">>]
          /\ pc' = [pc EXCEPT ![r] = "paddle_check"]
          /\ UNCHANGED <<ret, escaped, raised>>
    /\ UNCHANGED <<boot, probe_raised, registry, active, image, img_bgr, tmp_path, res,
                   recognized, calls, gotA, gotB>>

\* os.remove(name) succeeds: the file is gone
RemoveOk(n) == /\ fs[n] # 0
               /\ fs' = [fs EXCEPT ![n] = 0]

\* os.remove(name) that raises after it has removed the file
RemoveFailsFileGone(n) == fs' = [fs EXCEPT ![n] = 0]

\* os.remove(name) raises and removes nothing: the file is missing, or the
\* operating system refuses (the file is locked or protected)
RemoveFails(n) == UNCHANGED fs

\* PaddleCheck without the test of line 82: the call is started whether or
\* not a handle was constructed
PaddleCheckUngated(r) ==
    /\ pc[r] = "paddle_check"
    /\ debug_lines' = [debug_lines EXCEPT ![r] = @ \o <<"Trying PaddleOCR...">>]
    /\ calls' = [calls EXCEPT ![r] = Append(@, "PaddleOCR")]
    /\ pc' = [pc EXCEPT ![r] = "paddle_call"]
    /\ UNCHANGED <<boot, probe_raised, registry, fs, active, image, img_bgr, tmp_path, res,
                   recognized, ret, escaped, raised, gotA, gotB>>

\* lines 82-85 up to the start of the call paddle_ocr.ocr(tmp_path, cls=True)
PaddleCheck(r) ==
    /\ pc[r] = "paddle_check"
    /\ IF paddle_ocr # "None"
       THEN /\ debug_lines' = [debug_lines EXCEPT ![r] = @ \o <<"Trying PaddleOCR...">>]
            /\ calls' = [calls EXCEPT ![r] = Append(@, "PaddleOCR")]
            /\ pc' = [pc EXCEPT ![r] = "paddle_call"]
       ELSE /\ pc' = [pc EXCEPT ![r] = "easy_check"]
            /\ UNCHANGED <<debug_lines, calls>>
    /\ UNCHANGED <<boot, probe_raised, registry, fs, active, image, img_bgr, tmp_path, res,
                   recognized, ret, escaped, raised, gotA, gotB>>

\* line 85: the call raises
PaddleRaises(r) ==
    /\ pc[r] = "paddle_call"
    /\ Raise(r, "Traceback: paddle_ocr.ocr", debug_lines[r])
    /\ gotA' = [gotA EXCEPT ![r] = "raised"]
    /\ UNCHANGED <<boot, probe_raised, registry, fs, active, image, img_bgr, tmp_path, res,
                   recognized, calls, gotB>>

\* lines 85-108: the call returns rv, the result is parsed and joined
PaddleReturns(r, rv) ==
    /\ pc[r] = "paddle_call"
    /\ res' = [res EXCEPT ![r] = rv]
    /\ LET seen == debug_lines[r] \o <<"PaddleOCR returned a result.">>
                   \o (IF UnexpectedA(rv)
                       THEN <<"Unexpected PaddleOCR result structure.">>
                       ELSE <<>>)
       IN IF JoinOk(LinesA(rv))
          THEN /\ recognized' = [recognized EXCEPT ![r] = Strip(Join(LinesA(rv)))]
               /\ gotA' = [gotA EXCEPT ![r] = Outcome(Strip(Join(LinesA(rv))))]
               /\ debug_lines' = [debug_lines EXCEPT ![r] = seen]
               /\ pc' = [pc EXCEPT ![r] = "paddle_remove"]
               /\ UNCHANGED <<ret, escaped, raised>>
          ELSE \* line 108: join raises TypeError
               /\ Raise(r, "Traceback: str.join", seen)
               /\ gotA' = [gotA EXCEPT ![r] = "unjoined"]
               /\ UNCHANGED recognized
    /\ UNCHANGED <<boot, probe_raised, registry, fs, active, image, img_bgr, tmp_path, calls, gotB>>

\* PaddleRemove that returns only a non-empty text and otherwise goes on to EasyOCR
PaddleRemoveFallsThrough(r) ==
    /\ pc[r] = "paddle_remove"
    /\ \/ /\ RemoveOk(tmp_path[r])
          /\ LET dl == debug_lines[r] \o
                       EmptyNote(recognized[r], "PaddleOCR returned empty text.")
             IN /\ debug_lines' = [debug_lines EXCEPT ![r] = dl]
                /\ IF recognized[r] = <<>>
                   THEN /\ pc' = [pc EXCEPT ![r] = "easy_check"]
                        /\ UNCHANGED ret
                   ELSE Return(r, recognized[r], dl)
          /\ UNCHANGED <<escaped, raised>>
       \/ /\ RemoveFails(tmp_path[r])
          /\ Raise(r, "Traceback: os.remove (line 109)", debug_lines[r])
    /\ UNCHANGED <<boot, probe_raised, registry, active, image, img_bgr, tmp_path, res,
                   recognized, calls, gotA, gotB>>

\* lines 109-112: os.remove(tmp_path), then the return with PaddleOCR's text
PaddleRemove(r) ==
    /\ pc[r] = "paddle_remove"
    /\ \/ /\ RemoveOk(tmp_path[r])
          /\ LET dl == debug_lines[r] \o
                       EmptyNote(recognized[r], "PaddleOCR returned empty text.")
             IN /\ debug_lines' = [debug_lines EXCEPT ![r] = dl]
                /\ Return(r, recognized[r], dl)
          /\ UNCHANGED <<escaped, raised>>
       \/ /\ RemoveFails(tmp_path[r])
          /\ Raise(r, "Traceback: os.remove (line 109)", debug_lines[r])
    /\ UNCHANGED <<boot, probe_raised, registry, active, image, img_bgr, tmp_path, res,
                   recognized, calls, gotA, gotB>>

\* EasyCheck that constructs the reader again when the probe left no handle
EasyCheckConstructs(r) ==
    /\ pc[r] = "easy_check"
    /\ debug_lines' = [debug_lines EXCEPT ![r] = @ \o <<"Trying EasyOCR...">>]
    /\ calls' = [calls EXCEPT ![r] = Append(@, "EasyOCR")]
    /\ pc' = [pc EXCEPT ![r] = "easy_call"]
    /\ easy_reader' = "Reader"
    /\ EASY_AVAILABLE' = TRUE
    /\ UNCHANGED <<boot, probe_raised, PADDLE_AVAILABLE, paddle_ocr, paddle_import_error,
                   easy_import_error, fs, active, image, img_bgr, tmp_path,
                   res, recognized, ret, escaped, raised, gotA, gotB>>

\* lines 119-124 up to the start of the call easy_reader.readtext(tmp_path, detail=1)
EasyCheck(r) ==
    /\ pc[r] = "easy_check"
    /\ IF easy_reader # "None"
       THEN /\ debug_lines' = [debug_lines EXCEPT ![r] = @ \o <<"Trying EasyOCR...">>]
            /\ calls' = [calls EXCEPT ![r] = Append(@, "EasyOCR")]
            /\ pc' = [pc EXCEPT ![r] = "easy_call"]
       ELSE /\ pc' = [pc EXCEPT ![r] = "noresult"]
            /\ UNCHANGED <<debug_lines, calls>>
    /\ UNCHANGED <<boot, probe_raised, registry, fs, active, image, img_bgr, tmp_path, res,
                   recognized, ret, escaped, raised, gotA, gotB>>

\* line 124: the call raises
EasyRaises(r) ==
    /\ pc[r] = "easy_call"
    /\ Raise(r, "Traceback: easy_reader.readtext", debug_lines[r])
    /\ gotB' = [gotB EXCEPT ![r] = "raised"]
    /\ UNCHANGED <<boot, probe_raised, registry, fs, active, image, img_bgr, tmp_path, res,
                   recognized, calls, gotA>>

\* lines 124-133: the call returns rv, the items are read and joined
EasyReturns(r, rv) ==
    /\ pc[r] = "easy_call"
    /\ res' = [res EXCEPT ![r] = rv]
    /\ LET seen == debug_lines[r] \o <<"EasyOCR returned a result.">>
       IN IF UnexpectedB(rv)
          THEN \* line 127: iterating the result raises TypeError
               /\ Raise(r, "Traceback: for item in res", seen)
               /\ gotB' = [gotB EXCEPT ![r] = "unparsed"]
               /\ UNCHANGED recognized
          ELSE IF JoinOk(LinesB(rv))
          THEN /\ recognized' = [recognized EXCEPT ![r] = Strip(Join(LinesB(rv)))]
               /\ gotB' = [gotB EXCEPT ![r] = Outcome(Strip(Join(LinesB(rv))))]
               /\ debug_lines' = [debug_lines EXCEPT ![r] = seen]
               /\ pc' = [pc EXCEPT ![r] = "easy_remove"]
               /\ UNCHANGED <<ret, escaped, raised>>
          ELSE \* line 133: join raises TypeError
               /\ Raise(r, "Traceback: str.join", seen)
               /\ gotB' = [gotB EXCEPT ![r] = "unjoined"]
               /\ UNCHANGED recognized
    /\ UNCHANGED <<boot, probe_raised, registry, fs, active, image, img_bgr, tmp_path, calls, gotA>>

\* lines 134-137: os.remove(tmp_path), then the return with EasyOCR's text
EasyRemove(r) ==
    /\ pc[r] = "easy_remove"
    /\ \/ /\ RemoveOk(tmp_path[r])
          /\ LET dl == debug_lines[r] \o
                       EmptyNote(recognized[r], "EasyOCR returned empty text.")
             IN /\ debug_lines' = [debug_lines EXCEPT ![r] = dl]
                /\ Return(r, recognized[r], dl)
          /\ UNCHANGED <<escaped, raised>>
       \/ /\ RemoveFails(tmp_path[r])
          /\ Raise(r, "Traceback: os.remove (line 134)", debug_lines[r])
    /\ UNCHANGED <<boot, probe_raised, registry, active, image, img_bgr, tmp_path, res,
                   recognized, calls, gotA, gotB>>

\* EasyCleanup that goes back to the PaddleOCR branch after EasyOCR's failure
EasyCleanupRetries(r) ==
    /\ pc[r] = "easy_cleanup"
    /\ \/ /\ RemoveOk(tmp_path[r])
          /\ pc' = [pc EXCEPT ![r] = "noresult"]
          /\ UNCHANGED <<debug_lines, ret, escaped, raised>>
       \/ /\ RemoveFails(tmp_path[r])
          /\ pc' = [pc EXCEPT ![r] = "paddle_check"]
          /\ UNCHANGED <<debug_lines, ret, escaped, raised>>
    /\ UNCHANGED <<boot, probe_raised, registry, active, image, img_bgr, tmp_path, res,
                   recognized, calls, gotA, gotB>>

\* lines 141-144: os.remove(tmp_path) in the EasyOCR handler, failure ignored
EasyCleanup(r) ==
    /\ pc[r] = "easy_cleanup"
    /\ \/ /\ RemoveOk(tmp_path[r])
          /\ pc' = [pc EXCEPT ![r] = "noresult"]
          /\ UNCHANGED <<debug_lines, ret, escaped, raised>>
       \/ /\ RemoveFails(tmp_path[r])
          /\ Raise(r, "Traceback: os.remove (line 142)", debug_lines[r])
    /\ UNCHANGED <<boot, probe_raised, registry, active, image, img_bgr, tmp_path, res,
                   recognized, calls, gotA, gotB>>

\* lines 146-160: no engine produced a return
NoResult(r) ==
    /\ pc[r] = "noresult"
    /\ LET dl == debug_lines[r]
                 \o <<"Neither PaddleOCR nor EasyOCR is available or both returned an error.">>
                 \o UnavailableNote(PADDLE_AVAILABLE,
                        "PaddleOCR unavailable. Import/initialisation error:",
                        paddle_import_error)
                 \o UnavailableNote(EASY_AVAILABLE,
                        "EasyOCR unavailable. Import/initialisation error:",
                        easy_import_error)
                 \o Hints
       IN /\ debug_lines' = [debug_lines EXCEPT ![r] = dl]
          /\ Return(r, <<>>, dl)
    /\ UNCHANGED <<boot, probe_raised, registry, fs, active, image, img_bgr, tmp_path, res,
                   recognized, escaped, calls, raised, gotA, gotB>>

\* the finally block never finds a file to remove
TmpExistsNever(r) == FALSE

\* line 168: 'tmp_path' in locals() and os.path.exists(tmp_path)
TmpExists(r) == tmp_path[r] # 0 /\ fs[tmp_path[r]] # 0

\* lines 165-168: the finally block decides whether a file is left to remove
Finally(r) ==
    /\ pc[r] = "finally"
    /\ pc' = [pc EXCEPT ![r] = IF TmpExists(r) THEN "finally_remove" ELSE "done"]
    /\ UNCHANGED <<boot, probe_raised, registry, fs, active, locals, ret, escaped, ghosts>>

\* FinallyRemove that goes back to the existence check when os.remove raised
FinallyRemoveRetries(r) ==
    /\ pc[r] = "finally_remove"
    /\ \/ /\ RemoveOk(tmp_path[r])
          /\ pc' = [pc EXCEPT ![r] = "done"]
       \/ /\ RemoveFails(tmp_path[r])
          /\ pc' = [pc EXCEPT ![r] = "finally"]
    /\ UNCHANGED <<boot, probe_raised, registry, active, locals, ret, escaped, ghosts>>

\* lines 169-171: os.remove(tmp_path), failure ignored; the call ends
FinallyRemove(r) ==
    /\ pc[r] = "finally_remove"
    /\ \/ /\ RemoveOk(tmp_path[r])
          /\ pc' = [pc EXCEPT ![r] = "done"]
          /\ UNCHANGED <<debug_lines, ret, escaped, raised>>
       \/ /\ RemoveFails(tmp_path[r])
          /\ Raise(r, "Traceback: os.remove (line 169)", debug_lines[r])
    /\ UNCHANGED <<boot, probe_raised, registry, active, image, img_bgr, tmp_path, res,
                   recognized, calls, gotA, gotB>>

Next ==
    \/ ImportPaddle \/ ImportEasy \/ ConstructPaddle \/ ConstructEasy
    \/ \E r \in Reqs :
         \/ \E img \in Images : Submit(r, img)
         \/ Normalize(r) \/ MkTemp(r) \/ ImWrite(r)
         \/ PaddleCheck(r) \/ PaddleRaises(r)
         \/ \E rv \in ResultsA : PaddleReturns(r, rv)
         \/ PaddleRemove(r)
         \/ EasyCheck(r) \/ EasyRaises(r)
         \/ \E rv \in ResultsB : EasyReturns(r, rv)
         \/ EasyRemove(r) \/ EasyCleanup(r)
         \/ NoResult(r) \/ Finally(r) \/ FinallyRemove(r)

Spec == Init /\ [][Next]_vars

\* ------------------------------------------------------ thread progress
\* one engine result for each way an attempt can go on after the call has
\* returned: a text, an empty text, a token that cannot be joined, None
LiveResultsA == {PyNone}
    \cup {PyList(<<PyList(<<PyList(<<Box, PyTuple(<<t, Conf>>)>>)>>)>>) :
             t \in {PyString(<<"a">>), PyString(<<" ">>), PyInt(<<"5">>)}}
LiveResultsB == {PyNone}
    \cup {PyList(<<PyTuple(<<Box, t, Conf>>)>>) :
             t \in {PyString(<<"a">>), PyString(<<" ">>), PyInt(<<"5">>)}}

\* the steps of request r after the call was made: the thread that runs
\* ocr_receipt executes one statement after the other
Step(r) ==
    \/ Normalize(r) \/ MkTemp(r) \/ ImWrite(r)
    \/ PaddleCheck(r) \/ PaddleRemove(r)
    \/ EasyCheck(r) \/ EasyRemove(r) \/ EasyCleanup(r)
    \/ NoResult(r) \/ Finally(r) \/ FinallyRemove(r)

\* a started engine call comes to an end: it returns a result or raises
EngineEnds(r) ==
    \/ PaddleRaises(r) \/ \E rv \in LiveResultsA : PaddleReturns(r, rv)
    \/ EasyRaises(r) \/ \E rv \in LiveResultsB : EasyReturns(r, rv)

NextLive ==
    \/ ImportPaddle \/ ImportEasy \/ ConstructPaddle \/ ConstructEasy
    \/ \E r \in Reqs :
         \/ \E img \in Images : Submit(r, img)
         \/ Step(r)
         \/ EngineEnds(r)

\* requests served one at a time; the thread of a request keeps running,
\* and every engine call that was started ends
SpecFair ==
    /\ Init /\ [][NextLive]_vars
    /\ \A r \in Reqs : WF_vars(Step(r)) /\ WF_vars(EngineEnds(r))

\* ------------------------------------------------- concurrent requests
\* two calls of ocr_receipt may be in progress at once (one thread each):
\* their steps interleave; the inputs are one image and, for each engine,
\* one result with a text
ConcImages == {[kind |-> "ndarray", ndim |-> 2, ch |-> 0]}
ConcResultsA == {PyList(<<PyList(<<PyList(<<Box, PyTuple(<<PyString(<<"a">>), Conf>>)>>)>>)>>)}
ConcResultsB == {PyList(<<PyTuple(<<Box, PyString(<<"a">>), Conf>>)>>)}

InitConc == InitCommon /\ active = {1, 2}

NextConc ==
    \/ ImportPaddle \/ ImportEasy \/ ConstructPaddle \/ ConstructEasy
    \/ \E r \in Reqs :
         \/ \E img \in ConcImages : Submit(r, img)
         \/ Normalize(r) \/ MkTemp(r) \/ ImWrite(r)
         \/ PaddleCheck(r) \/ PaddleRaises(r)
         \/ \E rv \in ConcResultsA : PaddleReturns(r, rv)
         \/ PaddleRemove(r)
         \/ EasyCheck(r) \/ EasyRaises(r)
         \/ \E rv \in ConcResultsB : EasyReturns(r, rv)
         \/ EasyRemove(r) \/ EasyCleanup(r)
         \/ NoResult(r) \/ Finally(r) \/ FinallyRemove(r)

SpecConc == InitConc /\ [][NextConc]_vars

TypeOK == \A r \in Reqs : pc[r] \in {"idle", "normalize", "mktemp", "imwrite",
              "paddle_check", "paddle_call", "paddle_remove", "easy_check",
              "easy_call", "easy_remove", "easy_cleanup", "noresult",
              "finally", "finally_remove", "done"}

\* ====================================================== properties
Range(q) == {q[i] : i \in DOMAIN q}
EndsWith(q, suffix) ==
    /\ Len(q) >= Len(suffix)
    /\ SubSeq(q, Len(q) - Len(suffix) + 1, Len(q)) = suffix
\* entry x is directly followed by entry y
Adjacent(q, x, y) == \E i \in 1..(Len(q) - 1) : q[i] = x /\ q[i + 1] = y
Returned(r) == pc[r] = "done"

\* tracebacks of the failures that only the top-level handler catches
Unrecovered == {"Traceback: np.array", "Traceback: image.shape[2]",
                "Traceback: cv2.cvtColor", "Traceback: NamedTemporaryFile",
                "Traceback: cv2.imwrite"}

\* C1: whatever the image and whichever collaborator calls raise, no
\* exception reaches the caller of ocr_receipt; and when a failure occurred
\* that only the top-level handler catches, the returned text is empty and
\* the trace is the internal-error entry carrying that failure's traceback.
C1_NeverRaises ==
    \A r \in Reqs :
        /\ ~escaped[r]
        /\ Returned(r) =>
             \A tb \in raised[r] \cap Unrecovered :
                 ret[r] = [text |-> <<>>, trace |-> <<InternalErrorLine, tb>>]

C1_Witness ==
    \E r \in Reqs : /\ Returned(r)
                    /\ "Traceback: cv2.imwrite" \in raised[r]
                    /\ "Traceback: os.remove (line 169)" \in raised[r]

\* C2 as stated: after the call has returned, the temporary file the request
\* created does not exist, on every exit path.
C2_Original ==
    \A r \in Reqs : (Returned(r) /\ tmp_path[r] # 0) => fs[tmp_path[r]] = 0

\* C2 amended: after the call has returned, the temporary file the request
\* created does not exist, on every exit path, unless the os.remove of the
\* finally block (line 169) itself raised.
C2_RemovedUnlessFinalRemoveFails ==
    \A r \in Reqs :
        (/\ Returned(r)
         /\ tmp_path[r] # 0
         /\ "Traceback: os.remove (line 169)" \notin raised[r])
        => fs[tmp_path[r]] = 0

C2_Witness ==
    \E r \in Reqs : /\ Returned(r)
                    /\ tmp_path[r] # 0
                    /\ fs[tmp_path[r]] = 0
                    /\ "Traceback: easy_reader.readtext" \in raised[r]
                    /\ "Traceback: os.remove (line 142)" \in raised[r]

\* C3: when PaddleOCR's call returned and the text extracted from its result
\* is non-empty, the call returns exactly that text, EasyOCR was not invoked
\* and the trace has no entry about trying EasyOCR.
C3_Claim ==
    \A r \in Reqs :
        (Returned(r) /\ gotA[r] = "text") =>
            /\ "EasyOCR" \notin Range(calls[r])
            /\ ret[r].text = recognized[r]
            /\ ret[r].text # <<>>
            /\ "Trying EasyOCR..." \notin Range(ret[r].trace)

\* C4: when PaddleOCR's call raised and EasyOCR's call returned a result from
\* which a text was extracted, the returned text is that text and the trace
\* has the PaddleOCR failure entry with its traceback before the EasyOCR
\* success entry.
C4_Claim ==
    \A r \in Reqs :
        (Returned(r) /\ gotA[r] = "raised" /\ gotB[r] \in {"text", "empty"}) =>
            /\ ret[r].text = recognized[r]
            /\ \E i, j \in DOMAIN ret[r].trace :
                 /\ i + 1 < j
                 /\ ret[r].trace[i] = "Error running PaddleOCR:"
                 /\ ret[r].trace[i + 1] = "Traceback: paddle_ocr.ocr"
                 /\ ret[r].trace[j] = "EasyOCR returned a result."

\* every engine is unavailable or its call raised
NoEngineResult(r) ==
    /\ paddle_ocr = "None" \/ gotA[r] = "raised"
    /\ easy_reader = "None" \/ gotB[r] = "raised"

\* the no-result return: empty text, each engine whose flag is off named
\* with its stored failure detail, the hints last, and with both flags off
\* no engine call
NoResultReturn(r) ==
    /\ ret[r].text = <<>>
    /\ EndsWith(ret[r].trace, Hints)
    /\ ~PADDLE_AVAILABLE =>
         /\ paddle_import_error # "None"
         /\ Adjacent(ret[r].trace,
                     "PaddleOCR unavailable. Import/initialisation error:",
                     paddle_import_error)
    /\ ~EASY_AVAILABLE =>
         /\ easy_import_error # "None"
         /\ Adjacent(ret[r].trace,
                     "EasyOCR unavailable. Import/initialisation error:",
                     easy_import_error)
    /\ (~PADDLE_AVAILABLE /\ ~EASY_AVAILABLE) => calls[r] = <<>>

\* C5 as stated: every request with a supplied image in which every engine
\* is unavailable or raised returns the no-result pair.
C5_Original ==
    \A r \in Reqs :
        (Returned(r) /\ image[r].kind # "None" /\ NoEngineResult(r))
        => NoResultReturn(r)

\* C5 amended: every request with a supplied image that got past the
\* normalisation and the creation and writing of the temporary file, and in
\* which every engine is unavailable or raised, returns the no-result pair.
C5_NoResultAfterSetup ==
    \A r \in Reqs :
        (/\ Returned(r)
         /\ image[r].kind # "None"
         /\ raised[r] \cap Unrecovered = {}
         /\ NoEngineResult(r))
        => NoResultReturn(r)

C5_Witness ==
    \E r \in Reqs : /\ Returned(r)
                    /\ image[r].kind # "None"
                    /\ raised[r] \cap Unrecovered = {}
                    /\ ~PADDLE_AVAILABLE /\ ~EASY_AVAILABLE
                    /\ paddle_import_error = "Traceback: PaddleOCR()"
                    /\ ret[r].text = <<>>

\* C6: a request whose image is None returns empty text with the single
\* entry saying that no image was loaded; it binds no temporary file and
\* calls no engine.
C6_NoImage ==
    \A r \in Reqs :
        (pc[r] \notin {"idle", "normalize"} /\ image[r].kind = "None") =>
            /\ ret[r] = [text |-> <<>>, trace |-> <<"Error: image not loaded.">>]
            /\ tmp_path[r] = 0
            /\ calls[r] = <<>>

C6_Witness == \E r \in Reqs : Returned(r) /\ image[r].kind = "None"

\* C7 as stated: when an engine returned a result with empty extracted text,
\* every available engine has been called before the request returns, and
\* an empty returned text comes with a trace that ends with the hints.
C7_Original ==
    \A r \in Reqs :
        (Returned(r) /\ (gotA[r] = "empty" \/ gotB[r] = "empty")) =>
            /\ paddle_ocr # "None" => "PaddleOCR" \in Range(calls[r])
            /\ easy_reader # "None" => "EasyOCR" \in Range(calls[r])
            /\ ret[r].text = <<>> => EndsWith(ret[r].trace, Hints)

\* C7 amended: when an engine returned a result with empty extracted text and
\* the os.remove that follows did not raise, the request returns at that
\* point: empty text, the engine's "returned empty text" entry last in the
\* trace (no hints), and after PaddleOCR no call of EasyOCR.  When that
\* os.remove raised after PaddleOCR, the trace has the PaddleOCR failure
\* entry and EasyOCR, if available, was called.
C7_EmptyTextReturnsAtOnce ==
    \A r \in Reqs :
        Returned(r) =>
            /\ (gotA[r] = "empty"
                /\ "Traceback: os.remove (line 109)" \notin raised[r]) =>
                   /\ ret[r].text = <<>>
                   /\ EndsWith(ret[r].trace, <<"PaddleOCR returned empty text.">>)
                   /\ "EasyOCR" \notin Range(calls[r])
            /\ (gotB[r] = "empty"
                /\ "Traceback: os.remove (line 134)" \notin raised[r]) =>
                   /\ ret[r].text = <<>>
                   /\ EndsWith(ret[r].trace, <<"EasyOCR returned empty text.">>)
            /\ (gotA[r] = "empty"
                /\ "Traceback: os.remove (line 109)" \in raised[r]) =>
                   /\ "Error running PaddleOCR:" \in Range(ret[r].trace)
                   /\ easy_reader # "None" => "EasyOCR" \in Range(calls[r])

C7_Witness ==
    \E r \in Reqs : /\ Returned(r)
                    /\ gotA[r] = "empty"
                    /\ easy_reader # "None"
                    /\ calls[r] = <<"PaddleOCR">>

\* the entries that say why the text is empty
Explains == {"Error: image not loaded.",
             "PaddleOCR returned empty text.",
             "EasyOCR returned empty text.",
             "Neither PaddleOCR nor EasyOCR is available or both returned an error.",
             InternalErrorLine}

\* C8: a returned pair is never (empty text, empty trace): with an empty
\* text the trace is non-empty and has an entry that says why.
C8_EmptyTextExplained ==
    \A r \in Reqs :
        (Returned(r) /\ ret[r].text = <<>>) =>
            /\ ret[r].trace # <<>>
            /\ Range(ret[r].trace) \cap Explains # {}

C8_Witness ==
    \E r \in Reqs : /\ Returned(r)
                    /\ ret[r].text = <<>>
                    /\ gotB[r] = "empty"
                    /\ "Traceback: os.remove (line 134)" \notin raised[r]

\* C9: for every image with 1, 3 or 4 channels (2-D, or 3-D with a third
\* dimension of 1, 3 or 4) the normalisation succeeds with a 3-channel image.
C9_Claim ==
    \A r \in Reqs :
        (/\ pc[r] \notin {"idle", "normalize"}
         /\ image[r].kind # "None"
         /\ image[r].ndim \in {2, 3}
         /\ ChannelCount(image[r]) \in {1, 3, 4}
         /\ "Traceback: np.array" \notin raised[r])
        => img_bgr[r] = 3

\* ---- C10: the text the extractors are expected to produce
Min(S) == CHOOSE x \in S : \A y \in S : x <= y
Max(S) == CHOOSE x \in S : \A y \in S : x >= y

\* s without its leading and trailing whitespace
Trimmed(s) ==
    LET keep == {i \in 1..Len(s) : s[i] \notin Whitespace}
    IN IF keep = {} THEN <<>> ELSE SubSeq(s, Min(keep), Max(keep))

\* the tokens' characters with one newline between consecutive tokens
NewlineJoined(tokens) ==
    Flatten([i \in 1..Len(tokens) |->
                tokens[i].s \o (IF i < Len(tokens) THEN <<"\n">> ELSE <<>>)])

IsSequence(v) == v.k \in {"list", "tuple"}

\* the token of an EngineA item: item[1][0] when present, else str(item)
ExpectedTokenA(item) ==
    IF /\ IsSequence(item) /\ Len(item.e) >= 2
       /\ IsSequence(item.e[2]) /\ Len(item.e[2].e) >= 1
    THEN item.e[2].e[1]
    ELSE PyString(PyStr(item))

\* the token of an EngineB item: item[1] when present, else str(item)
ExpectedTokenB(item) ==
    IF IsSequence(item) /\ Len(item.e) >= 2
    THEN item.e[2]
    ELSE PyString(PyStr(item))

\* the items of an EngineA result: the elements of its pages, in order
ItemsOfA(rv) ==
    IF rv.k = "list"
    THEN Flatten([i \in 1..Len(rv.e) |->
                     IF rv.e[i].k = "list" THEN rv.e[i].e ELSE <<>>])
    ELSE <<>>

\* one line per item, and one line str(page) for a page that is not a list;
\* the single line str(result) for a result that cannot be iterated
ExpectedLinesA(rv) ==
    IF rv.k = "list"
    THEN Flatten([i \in 1..Len(rv.e) |->
                     IF rv.e[i].k = "list"
                     THEN [j \in 1..Len(rv.e[i].e) |-> ExpectedTokenA(rv.e[i].e[j])]
                     ELSE <<PyString(PyStr(rv.e[i]))>>])
    ELSE <<PyString(PyStr(rv))>>

\* C10 as stated: the extracted text is the tokens of the result's items, one
\* per item in order, joined with a newline and stripped.
C10_Original ==
    \A r \in Reqs :
        /\ pc[r] = "paddle_remove" =>
             recognized[r] =
                Trimmed(NewlineJoined(
                    [i \in 1..Len(ItemsOfA(res[r])) |->
                        ExpectedTokenA(ItemsOfA(res[r])[i])]))
        /\ pc[r] = "easy_remove" =>
             recognized[r] =
                Trimmed(NewlineJoined(
                    [i \in 1..Len(res[r].e) |-> ExpectedTokenB(res[r].e[i])]))

\* C10 amended: whenever an extractor has produced a text, it is the lines
\* joined with a newline and stripped, where the lines are one token per
\* item in order and, for EngineA, one line str(page) in the place of every
\* page that is not a list (str(result) alone for a result that cannot be
\* iterated).
C10_ExtractedText ==
    \A r \in Reqs :
        /\ pc[r] = "paddle_remove" =>
             recognized[r] = Trimmed(NewlineJoined(ExpectedLinesA(res[r])))
        /\ pc[r] = "easy_remove" =>
             recognized[r] =
                Trimmed(NewlineJoined(
                    [i \in 1..Len(res[r].e) |-> ExpectedTokenB(res[r].e[i])]))

C10_Witness ==
    \E r \in Reqs :
        /\ pc[r] = "paddle_remove"
        /\ res[r] = PyList(<<PyList(<<PyList(<<Box>>)>>), PyNone>>)
        /\ recognized[r] # <<>>

\* C11: for each engine, a call that has returned a result never ends as a
\* failure of the extraction: whatever the structure of the result, the
\* extractor produces a text (the unparseable node rendered as a string), so
\* no parse error of a returned result is handled as an engine failure.
C11_Claim ==
    \A r \in Reqs :
        /\ gotA[r] \notin {"unparsed", "unjoined"}
        /\ gotB[r] \notin {"unparsed", "unjoined"}
        /\ Range(debug_lines[r]) \cap {"Traceback: str.join",
                                       "Traceback: for item in res"} = {}

\* the trace entries written by an attempt of an engine
AttemptEntriesA == {"Trying PaddleOCR...", "PaddleOCR returned a result.",
                    "Unexpected PaddleOCR result structure.",
                    "PaddleOCR returned empty text.", "Error running PaddleOCR:"}
AttemptEntriesB == {"Trying EasyOCR...", "EasyOCR returned a result.",
                    "EasyOCR returned empty text.", "Error running EasyOCR:"}
UnavailableHeaders == {"PaddleOCR unavailable. Import/initialisation error:",
                       "EasyOCR unavailable. Import/initialisation error:"}
\* the failure details stored by the start-up probe
ProbeTracebacks == {"Traceback: import paddleocr", "Traceback: PaddleOCR()",
                    "Traceback: import easyocr", "Traceback: easyocr.Reader()"}
\* every trace entry request r has written or returned so far
Entries(r) == Range(debug_lines[r]) \cup Range(ret[r].trace)

\* C12: once the probe is over, an engine whose availability flag is off is
\* never called in a request and has no attempt entry in the request's
\* trace; its unavailability is never raised in a request (nothing escapes
\* and no failure raised in the request is a probe failure), and the entry
\* reporting it appears only in the trace of the no-result return.
C12_UnavailableNeverInvoked ==
    boot = "serving" =>
      \A r \in Reqs :
        /\ ~PADDLE_AVAILABLE =>
             /\ "PaddleOCR" \notin Range(calls[r])
             /\ gotA[r] = NoAttempt
             /\ Entries(r) \cap AttemptEntriesA = {}
        /\ ~EASY_AVAILABLE =>
             /\ "EasyOCR" \notin Range(calls[r])
             /\ gotB[r] = NoAttempt
             /\ Entries(r) \cap AttemptEntriesB = {}
        /\ ~escaped[r]
        /\ raised[r] \cap ProbeTracebacks = {}
        /\ Entries(r) \cap UnavailableHeaders # {} =>
             /\ pc[r] \in {"finally", "finally_remove", "done"}
             /\ ret[r].text = <<>>
             /\ EndsWith(ret[r].trace, Hints)
             /\ "Neither PaddleOCR nor EasyOCR is available or both returned an error."
                    \in Range(ret[r].trace)

\* a request served with PaddleOCR unavailable: it was skipped without an
\* entry and EasyOCR's text was returned
C12_Witness ==
    \E r \in Reqs :
        /\ Returned(r)
        /\ ~PADDLE_AVAILABLE /\ EASY_AVAILABLE
        /\ gotB[r] = "text"
        /\ ret[r].text # <<>>
        /\ ret[r].trace[2] = "Trying EasyOCR..."

\* the failures that end a PaddleOCR attempt in the handler of line 113
AttemptFailuresA == {"Traceback: paddle_ocr.ocr", "Traceback: str.join",
                     "Traceback: os.remove (line 109)"}

\* C13: within one request each engine is called at most once and PaddleOCR
\* never after EasyOCR; while a call is in progress it is the last one
\* started and the only one without an outcome; and EasyOCR's call has
\* started only if PaddleOCR was skipped for want of a handle, or PaddleOCR's
\* call has ended and its attempt ended in a failure caught and logged by
\* the handler of line 113.
C13_Sequential ==
    \A r \in Reqs :
        /\ calls[r] \in {<<>>, <<"PaddleOCR">>, <<"EasyOCR">>,
                         <<"PaddleOCR", "EasyOCR">>}
        /\ pc[r] = "paddle_call" =>
             calls[r] = <<"PaddleOCR">> /\ gotA[r] = NoAttempt /\ gotB[r] = NoAttempt
        /\ pc[r] = "easy_call" =>
             calls[r][Len(calls[r])] = "EasyOCR" /\ gotB[r] = NoAttempt
        /\ calls[r] = <<"EasyOCR">> => paddle_ocr = "None" /\ gotA[r] = NoAttempt
        /\ calls[r] = <<"PaddleOCR", "EasyOCR">> =>
             /\ paddle_ocr # "None"
             /\ gotA[r] # NoAttempt
             /\ raised[r] \cap AttemptFailuresA # {}
             /\ "Error running PaddleOCR:" \in Range(debug_lines[r])

\* EasyOCR's call is in progress after PaddleOCR's call raised
C13_Witness ==
    \E r \in Reqs :
        /\ pc[r] = "easy_call"
        /\ calls[r] = <<"PaddleOCR", "EasyOCR">>
        /\ gotA[r] = "raised"

\* C14: once the probe is over it is over for good, and no step of any
\* request changes an availability flag, an engine handle or a stored
\* failure detail: the registry is written by the probe only, so an engine
\* left unavailable stays unavailable and is never constructed again.
C14_RegistryFrozen ==
    [][boot = "serving" => (boot' = "serving" /\ registry' = registry)]_vars

\* a later request has returned with PaddleOCR still unavailable after its
\* construction failed: an earlier request's file is still on disk
C14_Witness ==
    \E r \in Reqs :
        /\ Returned(r)
        /\ tmp_path[r] # 0
        /\ \E n \in Names : n # tmp_path[r] /\ fs[n] # 0
        /\ ~PADDLE_AVAILABLE /\ paddle_ocr = "None"
        /\ paddle_import_error = "Traceback: PaddleOCR()"

\* C15: the start-up code never ends in an exception; and when it is over,
\* for each engine, a failed import or a failed construction has left the
\* flag off, no handle, and the traceback of that very step as the stored
\* detail, while an engine whose own two steps did not fail is available
\* with its handle whatever happened to the other engine.
C15_ProbeNeverRaises ==
    /\ boot # "crashed"
    /\ boot = "serving" =>
         /\ "import_paddle" \in probe_raised =>
              /\ ~PADDLE_AVAILABLE /\ paddle_ocr = "None"
              /\ paddle_import_error = "Traceback: import paddleocr"
         /\ "construct_paddle" \in probe_raised =>
              /\ ~PADDLE_AVAILABLE /\ paddle_ocr = "None"
              /\ paddle_import_error = "Traceback: PaddleOCR()"
         /\ "import_easy" \in probe_raised =>
              /\ ~EASY_AVAILABLE /\ easy_reader = "None"
              /\ easy_import_error = "Traceback: import easyocr"
         /\ "construct_easy" \in probe_raised =>
              /\ ~EASY_AVAILABLE /\ easy_reader = "None"
              /\ easy_import_error = "Traceback: easyocr.Reader()"
         /\ probe_raised \cap {"import_paddle", "construct_paddle"} = {} =>
              PADDLE_AVAILABLE /\ paddle_ocr = "PaddleOCR"
         /\ probe_raised \cap {"import_easy", "construct_easy"} = {} =>
              EASY_AVAILABLE /\ easy_reader = "Reader"

\* PaddleOCR's construction failed and EasyOCR was probed to the end
C15_Witness ==
    /\ boot = "serving"
    /\ probe_raised = {"construct_paddle"}
    /\ easy_reader = "Reader"

\* C16: with requests running concurrently, every step of a request that
\* removes a file removes a file this request created, a request's
\* cv2.imwrite never writes over a file another request created, and the
\* path a request hands to an engine is never that of a file another
\* request created.
C16_Claim ==
    [][\A r \in Reqs :
         pc'[r] # pc[r] =>
           /\ \A n \in Names : (fs[n] # 0 /\ fs'[n] = 0) => fs[n] = r
           /\ (pc[r] = "imwrite" /\ pc'[r] = "paddle_check") =>
                fs[tmp_path[r]] \in {0, r}
           /\ pc'[r] \in {"paddle_call", "easy_call"} =>
                fs[tmp_path[r]] \in {0, r}]_vars

\* a call of ocr_receipt by request r is in progress
Running(r) == pc[r] \notin {"idle", "done"}
\* an engine call of request r was started and has not ended
InCall(r) == pc[r] \in {"paddle_call", "easy_call"}

\* C17: when every started engine call ends, every request that was started
\* returns, and it has started at most two engine calls; a request leaves a
\* started engine call only by the call's return or raise (there is no
\* timeout and no cancellation), and as long as it is in the call its
\* temporary file stays on disk.
C17_Terminates ==
    /\ \A r \in Reqs : Running(r) ~> Returned(r)
    /\ [](\A r \in Reqs : Len(calls[r]) <= 2 /\ (InCall(r) => TmpExists(r)))
    /\ [][\A r \in Reqs :
            /\ (pc[r] = "paddle_call" /\ pc'[r] # pc[r]) => gotA'[r] # NoAttempt
            /\ (pc[r] = "easy_call" /\ pc'[r] # pc[r]) => gotB'[r] # NoAttempt]_vars

\* a request has returned after two engine calls
C17_Witness ==
    \E r \in Reqs : Returned(r) /\ Len(calls[r]) = 2 /\ gotB[r] = "empty"

\* C18: while an engine call of a request is in progress, the request has
\* bound tmp_path, converted the image and written it (the temp-file entry
\* is in the trace), and the file it created is on disk; when the call is
\* EasyOCR's after a PaddleOCR attempt, that attempt ended in a failure
\* before it removed the file (the call or the join raised, or the removal
\* of line 109 itself raised).
C18_FilePresentAtCall ==
    \A r \in Reqs :
        InCall(r) =>
          /\ tmp_path[r] # 0
          /\ fs[tmp_path[r]] = r
          /\ img_bgr[r] # 0
          /\ debug_lines[r][1] = "Temp file:"
          /\ (pc[r] = "easy_call" /\ "PaddleOCR" \in Range(calls[r])) =>
               \/ gotA[r] \in {"raised", "unjoined"}
               \/ "Traceback: os.remove (line 109)" \in raised[r]

\* EasyOCR's call is in progress after PaddleOCR's text was lost to a
\* failed removal at line 109
C18_Witness ==
    \E r \in Reqs :
        /\ pc[r] = "easy_call"
        /\ gotA[r] = "text"
        /\ "Traceback: os.remove (line 109)" \in raised[r]
        /\ fs[tmp_path[r]] = r

\* request r has the entry of the no-result path in its returned trace
EndedWithoutResult(r) ==
    "Neither PaddleOCR nor EasyOCR is available or both returned an error."
        \in Range(ret[r].trace)

\* C19: once the probe is over, each engine's flag is on exactly when its
\* handle is not None, and a flag that is off comes with a stored failure
\* detail; so no request both calls an engine and reports it unavailable,
\* a request that ends on the no-result path has done one of the two for
\* each engine, a report is followed by the stored detail, and the
\* placeholder for a missing detail is in no trace.
C19_FlagMatchesHandle ==
    boot = "serving" =>
      /\ PADDLE_AVAILABLE <=> paddle_ocr # "None"
      /\ EASY_AVAILABLE <=> easy_reader # "None"
      /\ ~PADDLE_AVAILABLE => paddle_import_error # "None"
      /\ ~EASY_AVAILABLE => easy_import_error # "None"
      /\ \A r \in Reqs :
           LET triedA == "PaddleOCR" \in Range(calls[r])
               triedB == "EasyOCR" \in Range(calls[r])
               headerA == "PaddleOCR unavailable. Import/initialisation error:"
               headerB == "EasyOCR unavailable. Import/initialisation error:"
               toldA == headerA \in Entries(r)
               toldB == headerB \in Entries(r)
           IN /\ ~(triedA /\ toldA)
              /\ ~(triedB /\ toldB)
              /\ EndedWithoutResult(r) => (triedA \/ toldA) /\ (triedB \/ toldB)
              /\ toldA => Adjacent(debug_lines[r], headerA, paddle_import_error)
              /\ toldB => Adjacent(debug_lines[r], headerB, easy_import_error)
              /\ NoInfo \notin Entries(r)

\* a request ended on the no-result path after PaddleOCR's call raised,
\* with EasyOCR reported as unavailable
C19_Witness ==
    \E r \in Reqs :
        /\ Returned(r)
        /\ EndedWithoutResult(r)
        /\ calls[r] = <<"PaddleOCR">>
        /\ ~EASY_AVAILABLE
        /\ Adjacent(ret[r].trace, "EasyOCR unavailable. Import/initialisation error:",
                    "Traceback: easyocr.Reader()")

\* C19 as stated: as above, but every request that has returned, on
\* whatever path, has for each engine either called it or reported it
\* unavailable.
C19_Original ==
    /\ C19_FlagMatchesHandle
    /\ \A r \in Reqs :
         Returned(r) =>
           /\ "PaddleOCR" \in Range(calls[r])
                \/ "PaddleOCR unavailable. Import/initialisation error:" \in Entries(r)
           /\ "EasyOCR" \in Range(calls[r])
                \/ "EasyOCR unavailable. Import/initialisation error:" \in Entries(r)

====
